---- MODULE Spec2Model ----
(***************************************************************************)
(* Transnet tender ingestion: lambda_handler (fetch, normalize, batch,     *)
(* dispatch) and the TransnetTender factory it drives.                     *)
(*                                                                         *)
(* Representation.  A JSON value is a record [t, s]: t is its type tag and *)
(* s a sequence of naturals: the code points of a string, the single       *)
(* number of a numeric value, the elements of a list.  A missing key is    *)
(* the tag "absent".  A string held by a date field is written as the      *)
(* seven numeric fields the format '%m/%d/%Y %I:%M:%S %p' lexes            *)
(* (month, day, year, hour, minute, second, meridiem); a sequence of any   *)
(* other length is a string the format does not match.  Python's None for  *)
(* a date is the empty sequence, a datetime is <<y, mo, d, H, mi, s>>.     *)
(***************************************************************************)
EXTENDS Integers, Sequences, FiniteSets, TLC

\* ------------------------------------------------------------ bounds
\* longest text value drawn for a free-text field
MaxLen == 3
\* longest raw collection of the mixed-shape runs
MaxItems == 3
\* longest raw collection of the all-valid runs (more than two full batches)
MaxRecords == 21

\* ------------------------------------------------------------ characters
LF == 10
CR == 13
SP == 32
\* LATIN SMALL LETTER J WITH CARON: its upper/title case is 'J' + COMBINING CARON
JCaron == 496
CombiningCaron == 780

IsSpace(c) == c \in (9..13) \cup (28..32) \cup {133, 160}

IsAsciiUpper(c) == c \in 65..90
IsAsciiLower(c) == c \in 97..122

\* str.istitle/title use the Cased property: letters are cased, a combining
\* mark is not
IsCased(c) == IsAsciiUpper(c) \/ IsAsciiLower(c) \/ c = JCaron

ToLower(c) == IF IsAsciiUpper(c) THEN <<c + 32>> ELSE <<c>>

ToUpperFull(c) ==
    IF IsAsciiLower(c) THEN <<c - 32>>
    ELSE IF c = JCaron THEN <<74, CombiningCaron>>
    ELSE <<c>>

ToTitleFull(c) == ToUpperFull(c)

\* ------------------------------------------------------------ str methods
RECURSIVE Replace(_, _, _)
\* s.replace(old, new) for a one-character old
Replace(s, old, new) ==
    IF s = <<>> THEN <<>>
    ELSE (IF Head(s) = old THEN new ELSE <<Head(s)>>) \o Replace(Tail(s), old, new)

RECURSIVE LStrip(_)
LStrip(s) == IF s # <<>> /\ IsSpace(Head(s)) THEN LStrip(Tail(s)) ELSE s

RECURSIVE RStrip(_)
RStrip(s) ==
    IF s # <<>> /\ IsSpace(s[Len(s)]) THEN RStrip(SubSeq(s, 1, Len(s) - 1)) ELSE s

Strip(s) == RStrip(LStrip(s))

RECURSIVE Upper(_)
Upper(s) == IF s = <<>> THEN <<>> ELSE ToUpperFull(Head(s)) \o Upper(Tail(s))

RECURSIVE Lower(_)
Lower(s) == IF s = <<>> THEN <<>> ELSE ToLower(Head(s)) \o Lower(Tail(s))

RECURSIVE TitleFrom(_, _)
\* the loop of str.title: a character after a cased one is lowercased, any
\* other is titlecased; previous_is_cased is taken from the input character
TitleFrom(s, previous_is_cased) ==
    IF s = <<>> THEN <<>>
    ELSE (IF previous_is_cased THEN ToLower(Head(s)) ELSE ToTitleFull(Head(s)))
         \o TitleFrom(Tail(s), IsCased(Head(s)))

Title(s) == TitleFrom(s, FALSE)

ApplyCase(casing, s) ==
    CASE casing = "title" -> Title(s)
      [] casing = "upper" -> Upper(s)
      [] casing = "lower" -> Lower(s)

\* value.replace('\n', ' ').replace('\r', '').strip().<casing>()
CleanText(casing, s) ==
    ApplyCase(casing, Strip(Replace(Replace(s, LF, <<SP>>), CR, <<>>)))

\* ------------------------------------------------------------ JSON values
Absent == [t |-> "absent", s |-> <<>>]
Null == [t |-> "null", s |-> <<>>]
Str(s) == [t |-> "str", s |-> s]
Num(n) == [t |-> "num", s |-> <<n>>]
List(s) == [t |-> "list", s |-> s]

\* Python truth value of a JSON value (a missing key reads as None)
Truthy(v) ==
    CASE v.t = "absent" -> FALSE
      [] v.t = "null" -> FALSE
      [] v.t = "num" -> v.s[1] # 0
      [] OTHER -> v.s # <<>>

\* response_item.get(key)
Get(item, key) == IF item[key].t = "absent" THEN Null ELSE item[key]

\* response_item.get(key, '')
GetOrEmpty(item, key) == IF item[key].t = "absent" THEN Str(<<>>) ELSE item[key]

\* ------------------------------------------------------------ dates
None == <<>>
AM == 0
PM == 1

IsLeap(y) == (y % 4 = 0 /\ y % 100 # 0) \/ y % 400 = 0

DaysInMonth(y, mo) ==
    IF mo = 2 THEN (IF IsLeap(y) THEN 29 ELSE 28)
    ELSE IF mo \in {4, 6, 9, 11} THEN 30 ELSE 31

\* the format's regular expression matches: every directive in its range
FormatMatches(s) ==
    /\ Len(s) = 7
    /\ s[1] \in 1..12
    /\ s[2] \in 1..31
    /\ s[3] \in 0..9999
    /\ s[4] \in 1..12
    /\ s[5] \in 0..59
    /\ s[6] \in 0..61
    /\ s[7] \in {AM, PM}

\* datetime(...) accepts the lexed fields
DateTimeValid(s) ==
    /\ s[3] >= 1
    /\ s[2] <= DaysInMonth(s[3], s[1])
    /\ s[6] <= 59

\* 12-hour clock to 24-hour clock
Hour24(h, p) == IF p = PM THEN (IF h = 12 THEN 12 ELSE h + 12)
                ELSE (IF h = 12 THEN 0 ELSE h)

\* datetime.strptime(v, date_format): the exception it raises ("" for none)
StrptimeRaises(v) ==
    IF v.t # "str" THEN "TypeError"
    ELSE IF FormatMatches(v.s) /\ DateTimeValid(v.s) THEN ""
    ELSE "ValueError"

Strptime(v) ==
    <<v.s[3], v.s[1], v.s[2], Hour24(v.s[4], v.s[7]), v.s[5], v.s[6]>>

\* except ValueError alone
DateCaught_ValueErrorOnly == {"ValueError"}

\* except (TypeError, ValueError)
DateCaught == {"TypeError", "ValueError"}

\* one of the two try blocks of the factory: the parsed date (or None), whether
\* a warning is logged, and the exception that leaves the block ("" for none)
ParseDate(item, key) ==
    LET v == Get(item, key)
        exc == IF Truthy(v) THEN StrptimeRaises(v) ELSE ""
    IN  [date |-> IF Truthy(v) /\ exc = "" THEN Strptime(v) ELSE None,
         warned |-> exc \in DateCaught,
         escapes |-> IF exc \in DateCaught THEN "" ELSE exc]

\* ------------------------------------------------------------ raw items
\* the free-text keys of a raw item, the record attribute each feeds and its casing
TextKeys ==
    {"nameOfTender", "descriptionOfTender", "tenderNumber", "nameOfInstitution",
     "tenderCategory", "tenderType", "locationOfService",
     "contactPersonEmailAddress", "contactPersonName"}

Keys == {"rowKey", "attachment", "publishedDate", "closingDate"} \cup TextKeys

Casing(key) ==
    CASE key \in {"tenderNumber", "nameOfInstitution", "tenderType"} -> "upper"
      [] key = "contactPersonEmailAddress" -> "lower"
      [] OTHER -> "title"

Attr(key) ==
    CASE key = "nameOfTender" -> "title"
      [] key = "descriptionOfTender" -> "description"
      [] key = "tenderNumber" -> "tender_number"
      [] key = "nameOfInstitution" -> "institution"
      [] key = "tenderCategory" -> "category"
      [] key = "tenderType" -> "tender_type"
      [] key = "locationOfService" -> "location"
      [] key = "contactPersonEmailAddress" -> "email"
      [] key = "contactPersonName" -> "contact_person"

TextAttrs == {Attr(k) : k \in TextKeys}

KeyOf(attr) == CHOOSE k \in TextKeys : Attr(k) = attr

\* ------------------------------------------------------------ models.py
\* SupportingDoc(name="Tender Attachment", url=attachment_url)
SupportingDoc(name, url) == [name |-> name, url |-> url]

\* response_item.get(key, '').replace(...)...: a value that is no str has no
\* replace method
TextRaises(item, key) ==
    IF GetOrEmpty(item, key).t = "str" THEN "" ELSE "AttributeError"

\* the tender number is read from the identifier key
TextValue_NumberFromRowKey(item, key) ==
    IF key = "tenderNumber"
    THEN CleanText("upper", Get(item, "rowKey").s)
    ELSE CleanText(Casing(key), GetOrEmpty(item, key).s)

TextValue(item, key) == CleanText(Casing(key), GetOrEmpty(item, key).s)

\* the keyword arguments of cls(...), evaluated once every text value is a str
NewTender(item, doc_list, pub_date, close_date) ==
    [title |-> TextValue(item, "nameOfTender"),
     description |-> TextValue(item, "descriptionOfTender"),
     source |-> "Transnet",
     published_date |-> pub_date,
     closing_date |-> close_date,
     supporting_docs |-> doc_list,
     tags |-> <<>>,
     tender_number |-> TextValue(item, "tenderNumber"),
     institution |-> TextValue(item, "nameOfInstitution"),
     category |-> TextValue(item, "tenderCategory"),
     tender_type |-> TextValue(item, "tenderType"),
     location |-> TextValue(item, "locationOfService"),
     email |-> TextValue(item, "contactPersonEmailAddress"),
     contact_person |-> TextValue(item, "contactPersonName")]

\* outcomes of the factory: rec holds the record of kind "record" and is empty
\* otherwise; warned names the date keys a warning was logged for
ReturnsNone == [kind |-> "None", exc |-> "", rec |-> <<>>, warned |-> {}]
Raises(exc, warned) == [kind |-> "raise", exc |-> exc, rec |-> <<>>, warned |-> warned]
Returns(rec, warned) == [kind |-> "record", exc |-> "", rec |-> <<rec>>, warned |-> warned]

\* `if not tender_id: return None` fails to fire
HasTenderId_NotNone(tender_id) == tender_id.t # "null"

HasTenderId(tender_id) == Truthy(tender_id)

\* TransnetTender.from_api_response(response_item)
from_api_response(item) ==
    LET tender_id == Get(item, "rowKey")
        attachment_url == Get(item, "attachment")
        doc_list == IF Truthy(attachment_url)
                    THEN <<SupportingDoc("Tender Attachment", attachment_url)>>
                    ELSE <<>>
        pub == ParseDate(item, "publishedDate")
        close == ParseDate(item, "closingDate")
        warned == {k \in {"publishedDate"} : pub.warned}
                  \cup {k \in {"closingDate"} : close.warned}
        bad == {k \in TextKeys : TextRaises(item, k) # ""}
    IN  IF ~HasTenderId(tender_id) THEN ReturnsNone
        ELSE IF pub.escapes # "" THEN Raises(pub.escapes, {})
        ELSE IF close.escapes # "" THEN Raises(close.escapes, warned)
        ELSE IF bad # {} THEN Raises("AttributeError", warned)
        ELSE Returns(NewTender(item, doc_list, pub.date, close.date), warned)

\* datetime.isoformat(): "YYYY-MM-DDTHH:MM:SS", kept as its six fields
IsoFormat(d) == [iso |-> d]

\* SupportingDoc.to_dict
doc_to_dict(doc) == [name |-> doc.name, url |-> doc.url]

\* TransnetTender.to_dict (TenderBase.to_dict updated with the Transnet fields)
to_dict(tender) ==
    [title |-> tender.title,
     description |-> tender.description,
     source |-> tender.source,
     publishedDate |-> IF tender.published_date # None
                       THEN <<IsoFormat(tender.published_date)>> ELSE <<>>,
     closingDate |-> IF tender.closing_date # None
                     THEN <<IsoFormat(tender.closing_date)>> ELSE <<>>,
     supporting_docs |-> [i \in 1..Len(tender.supporting_docs) |->
                            doc_to_dict(tender.supporting_docs[i])],
     tags |-> <<>>,
     tenderNumber |-> tender.tender_number,
     institution |-> tender.institution,
     category |-> tender.category,
     tenderType |-> tender.tender_type,
     location |-> tender.location,
     email |-> tender.email,
     contactPerson |-> tender.contact_person]

\* ------------------------------------------------------------ lambda_function.py
VARIABLES
    pc,                     \* "fetch", "normalize", "dispatch" or "returned"
    api_data,               \* the raw collection under 'result'
    idx,                    \* raw items the for loop has consumed
    tender_object,          \* outcome of the last from_api_response call
    processed_tenders,
    skipped_count,
    processed_tender_dicts,
    message_batches,
    batch_index,
    sent_count,
    sends,                  \* the send_message_batch calls the queue client received
    log,                    \* the logger's records
    result                  \* what lambda_handler returned, or the exception that left it

vars == <<pc, api_data, idx, tender_object, processed_tenders, skipped_count,
          processed_tender_dicts, message_batches, batch_index, sent_count,
          sends, log, result>>

batch_size == 10

NoResult == [statusCode |-> 0, body |-> "", exc |-> "", line |-> 0]
\* an exception no except clause names leaves lambda_handler at this source line
Uncaught(exc, line) == [statusCode |-> 0, body |-> "", exc |-> exc, line |-> line]
Returned(status, body) == [statusCode |-> status, body |-> body, exc |-> "", line |-> 0]

LogRecord(level, event, n) == [level |-> level, event |-> event, n |-> n]

\* ---- step 1: fetch
\* requests.exceptions.RequestException and its subclasses; requests raises its
\* own JSONDecodeError, a subclass of both RequestException and json.JSONDecodeError
RequestException == {"ConnectionError", "Timeout", "HTTPError", "requests.JSONDecodeError"}
JSONDecodeError == {"json.JSONDecodeError", "requests.JSONDecodeError"}

\* what requests.get / raise_for_status / response.json / .get('result', []) raise
\* for each kind of answer of the source ("" for none)
FetchRaises(r) ==
    CASE r.kind = "network_error" -> {"ConnectionError", "Timeout"}
      [] r.kind = "http_error" -> {"HTTPError"}
      [] r.kind = "not_json" -> {"requests.JSONDecodeError", "json.JSONDecodeError"}
      [] r.kind = "json_array" -> {"AttributeError"}
      [] r.kind = "object" -> {""}

\* api_response_dict.get('result', [])
ApiData(r) == IF r.has_result THEN r.result ELSE <<>>

\* the except clauses answer with the success status
FetchHandler_Status200(exc) ==
    IF exc \in RequestException \cup JSONDecodeError
    THEN Returned(200, "Failed to fetch data from source API")
    ELSE Uncaught(exc, 71)

\* the two except clauses of the fetch
FetchHandler(exc) ==
    IF exc \in RequestException
    THEN Returned(502, "Failed to fetch data from source API")
    ELSE IF exc \in JSONDecodeError
    THEN Returned(502, "Invalid JSON response from source API")
    ELSE Uncaught(exc, 71)

Responses(Bodies) ==
    {[kind |-> k, has_result |-> FALSE, result |-> <<>>] :
        k \in {"network_error", "http_error", "not_json", "json_array", "object"}}
    \cup {[kind |-> "object", has_result |-> TRUE, result |-> b] : b \in Bodies}

Fetch(Bodies) ==
    /\ pc = "fetch"
    /\ \E r \in Responses(Bodies) : \E exc \in FetchRaises(r) :
         IF exc = ""
         THEN /\ api_data' = ApiData(r)
              /\ log' = Append(log, LogRecord("INFO", "fetched", Len(ApiData(r))))
              /\ pc' = "normalize"
              /\ UNCHANGED result
         ELSE /\ result' = FetchHandler(exc)
              /\ log' = IF FetchHandler(exc).exc = ""
                        THEN Append(log, LogRecord("ERROR", "fetch failed", 0))
                        ELSE log
              /\ pc' = "returned"
              /\ UNCHANGED api_data
    /\ UNCHANGED <<idx, tender_object, processed_tenders, skipped_count,
                   processed_tender_dicts, message_batches, batch_index,
                   sent_count, sends>>

\* ---- step 2: the normalization loop
\* except (KeyError, ValueError, TypeError)
LoopCaught == {"KeyError", "ValueError", "TypeError"}

\* logging.warning calls made inside the factory
FactoryLog(out) ==
    (IF "publishedDate" \in out.warned
     THEN <<LogRecord("WARNING", "invalid publishedDate", 0)>> ELSE <<>>)
    \o (IF "closingDate" \in out.warned
        THEN <<LogRecord("WARNING", "invalid closingDate", 0)>> ELSE <<>>)

\* one iteration of `for item in api_data`
NormalizeItem ==
    /\ pc = "normalize"
    /\ idx < Len(api_data)
    /\ LET out == from_api_response(api_data[idx + 1])
       IN  /\ tender_object' = out
           /\ idx' = idx + 1
           /\ CASE out.kind = "record" ->
                     /\ processed_tenders' = Append(processed_tenders, out.rec[1])
                     /\ log' = log \o FactoryLog(out)
                     /\ UNCHANGED <<skipped_count, pc, result>>
                [] out.kind = "None" ->
                     /\ skipped_count' = skipped_count + 1
                     /\ log' = log \o FactoryLog(out)
                     /\ UNCHANGED <<processed_tenders, pc, result>>
                [] out.kind = "raise" /\ out.exc \in LoopCaught ->
                     /\ skipped_count' = skipped_count + 1
                     /\ log' = (log \o FactoryLog(out))
                               \o <<LogRecord("WARNING", "skipping tender", idx + 1)>>
                     /\ UNCHANGED <<processed_tenders, pc, result>>
                [] OTHER ->
                     /\ result' = Uncaught(out.exc, 90)
                     /\ pc' = "returned"
                     /\ log' = log \o FactoryLog(out)
                     /\ UNCHANGED <<processed_tenders, skipped_count>>
    /\ UNCHANGED <<api_data, processed_tender_dicts, message_batches, batch_index,
                   sent_count, sends>>

\* ---- steps 3 and 4: to_dict and batching
RECURSIVE Range(_, _, _)
\* range(start, stop, step) for a positive step
Range(start, stop, step) ==
    IF start >= stop THEN <<>> ELSE <<start>> \o Range(start + step, stop, step)

\* s[i:j] for 0 <= i <= j
Slice(s, i, j) == SubSeq(s, i + 1, IF j < Len(s) THEN j ELSE Len(s))

\* only full groups: range(0, len(dicts) - size + 1, size)
Batches_FullOnly(dicts, size) ==
    LET starts == Range(0, Len(dicts) - size + 1, size)
    IN  [k \in 1..Len(starts) |-> Slice(dicts, starts[k], starts[k] + size)]

\* [dicts[i:i + size] for i in range(0, len(dicts), size)]
Batches(dicts, size) ==
    LET starts == Range(0, Len(dicts), size)
    IN  [k \in 1..Len(starts) |-> Slice(dicts, starts[k], starts[k] + size)]

\* the summary logs after the loop
SummaryLog(n, skipped) ==
    <<LogRecord("INFO", "processed", n)>>
    \o (IF skipped > 0
        THEN <<LogRecord("WARNING", "skipped due to errors", skipped)>> ELSE <<>>)

\* the loop is exhausted: summary logs, to_dict of every record, batching
EndNormalize ==
    /\ pc = "normalize"
    /\ idx = Len(api_data)
    /\ log' = log \o SummaryLog(Len(processed_tenders), skipped_count)
    /\ processed_tender_dicts' =
         [i \in 1..Len(processed_tenders) |-> to_dict(processed_tenders[i])]
    /\ message_batches' = Batches(processed_tender_dicts', batch_size)
    /\ sent_count' = 0
    /\ batch_index' = 0
    /\ pc' = "dispatch"
    /\ UNCHANGED <<api_data, idx, tender_object, processed_tenders, skipped_count,
                   sends, result>>

\* ---- step 4: dispatch
\* json.dumps(tender_dict)
JsonDumps(d) == [json |-> d]

Entries(index, batch) ==
    [i \in 1..Len(batch) |->
        [Id |-> <<index, i - 1>>,
         MessageBody |-> JsonDumps(batch[i]),
         MessageGroupId |-> "TransnetTenderScrape"]]

\* what send_message_batch can answer for these entries: it raises, or it
\* confirms the first k entries and rejects the others
SendOutcomes(entries) ==
    {[raised |-> TRUE, Successful |-> <<>>, Failed |-> <<>>]}
    \cup {[raised |-> FALSE,
           Successful |-> [i \in 1..k |-> entries[i].Id],
           Failed |-> [i \in 1..(Len(entries) - k) |-> entries[k + i].Id]] :
            k \in 0..Len(entries)}

\* counts every entry of an answered call: len(entries)
Counted_AllEntries(count, response) ==
    IF response.raised THEN count
    ELSE count + Len(response.Successful) + Len(response.Failed)

\* sent_count after one send_message_batch call
Counted(count, response) ==
    IF response.raised THEN count ELSE count + Len(response.Successful)

\* a call that raises ends the loop
NextBatch_AbortOnRaise(index, response) ==
    IF response.raised THEN Len(message_batches) ELSE index + 1

\* the batch the for loop takes after this one, whatever the call did
NextBatch(index, response) == index + 1

SendLog(entries, response) ==
    IF response.raised THEN <<LogRecord("ERROR", "send failed", Len(entries))>>
    ELSE <<LogRecord("INFO", "sent batch", Len(entries))>>
         \o (IF response.Failed # <<>>
             THEN <<LogRecord("ERROR", "some messages failed", Len(response.Failed))>>
             ELSE <<>>)

\* one iteration of `for batch_index, batch in enumerate(message_batches)`
SendBatch ==
    /\ pc = "dispatch"
    /\ batch_index < Len(message_batches)
    /\ LET entries == Entries(batch_index, message_batches[batch_index + 1])
       IN  IF entries = <<>>
           THEN /\ batch_index' = batch_index + 1
                /\ UNCHANGED <<sent_count, sends, log>>
           ELSE \E response \in SendOutcomes(entries) :
                  /\ sends' = Append(sends, [index |-> batch_index,
                                             Entries |-> entries,
                                             response |-> response])
                  /\ sent_count' = Counted(sent_count, response)
                  /\ log' = log \o SendLog(entries, response)
                  /\ batch_index' = NextBatch(batch_index, response)
    /\ UNCHANGED <<pc, api_data, idx, tender_object, processed_tenders,
                   skipped_count, processed_tender_dicts, message_batches, result>>

\* ---- step 5
Return ==
    /\ pc = "dispatch"
    /\ batch_index >= Len(message_batches)
    /\ log' = Append(log, LogRecord("INFO", "complete", sent_count))
    /\ result' = Returned(200, "Tender data processed and sent to SQS queue.")
    /\ pc' = "returned"
    /\ UNCHANGED <<api_data, idx, tender_object, processed_tenders, skipped_count,
                   processed_tender_dicts, message_batches, batch_index,
                   sent_count, sends>>

Init ==
    /\ pc = "fetch"
    /\ api_data = <<>>
    /\ idx = 0
    /\ tender_object = ReturnsNone
    /\ processed_tenders = <<>>
    /\ skipped_count = 0
    /\ processed_tender_dicts = <<>>
    /\ message_batches = <<>>
    /\ batch_index = 0
    /\ sent_count = 0
    /\ sends = <<>>
    /\ log = <<LogRecord("INFO", "start", 0)>>
    /\ result = NoResult

\* ------------------------------------------------------------ inputs
EmptyItem == [k \in Keys |-> Absent]

With(item, key, v) == [item EXCEPT ![key] = v]

\* "10/01/2025 09:00:00 AM" and "13/45/2025 99:00:00 XM"
GoodDate == Str(<<10, 1, 2025, 9, 0, 0, AM>>)
MalformedDate == Str(<<13, 45, 2025, 99, 0, 0, 2>>)

\* a well-formed item; i tells the items of one collection apart
ValidItem(i) ==
    With(With(With(EmptyItem, "rowKey", Str(<<48 + i>>)),
              "nameOfTender", Str(<<96 + i>>)),
         "publishedDate", GoodDate)

\* the item shapes of the mixed runs: valid, {"nameOfTender": "X"} without an
\* identifier, an empty identifier, a null title, a malformed date
ItemShapes ==
    {ValidItem(1),
     With(EmptyItem, "nameOfTender", Str(<<88>>)),
     With(ValidItem(2), "rowKey", Str(<<>>)),
     With(ValidItem(3), "nameOfTender", Null),
     With(ValidItem(4), "publishedDate", MalformedDate)}

SeqsUpTo(S, n) == UNION {[1..k -> S] : k \in 0..n}

MixedBodies == SeqsUpTo(ItemShapes, MaxItems)

\* collections of N valid, pairwise different items
ValidBodies == {[i \in 1..n |-> ValidItem(i)] : n \in 0..MaxRecords}

\* single items for the factory: one key ranges over many values, the others
\* over a few
Alphabet == {LF, CR, SP, 65, 97, JCaron}

TextStrings == SeqsUpTo(Alphabet, MaxLen)

TextValues == {Str(s) : s \in TextStrings} \cup {Absent, Null, Num(5)}

IdValues == {Absent, Null, Str(<<>>), Str(<<120>>), Num(0), Num(7), List(<<>>)}

DateStrings ==
    {Str(<<mo, d, y, h, mi, s, p>>) :
        mo \in {2, 12, 13}, d \in {29, 31, 45}, y \in {2024, 2025},
        h \in {0, 9, 12, 99}, mi \in {30, 60}, s \in {0, 60}, p \in {AM, PM, 2}}

DateValues ==
    DateStrings \cup {Absent, Null, Str(<<>>), Str(<<1, 2>>), Num(0), Num(5),
                      List(<<>>), List(<<1>>)}

FewDates == {Absent, GoodDate, MalformedDate, Num(5)}

AttachmentValues == {Absent, Null, Str(<<>>), Str(<<104>>), Num(3)}

TextItems ==
    {With(ValidItem(1), k, v) : k \in TextKeys, v \in TextValues}

IdItems ==
    {With(With(With(ValidItem(1), "rowKey", id), "descriptionOfTender", v),
          "attachment", a) :
        id \in IdValues, v \in {Absent, Null, Str(<<97>>)}, a \in AttachmentValues}

DateItems ==
    {With(With(ValidItem(1), "publishedDate", p), "closingDate", c) :
        p \in DateValues, c \in FewDates}
    \cup {With(With(ValidItem(1), "publishedDate", p), "closingDate", c) :
            p \in FewDates, c \in DateValues}
    \cup {With(With(With(ValidItem(1), "publishedDate", p), "closingDate", c),
               "tenderType", Null) : p \in FewDates, c \in FewDates}

SingleBodies == {<<item>> : item \in TextItems \cup IdItems \cup DateItems}

\* ------------------------------------------------------------ specifications
\* runs over short collections of every item shape
Next ==
    \/ Fetch(MixedBodies)
    \/ NormalizeItem
    \/ EndNormalize
    \/ SendBatch
    \/ Return

Spec == Init /\ [][Next]_vars

\* runs over one raw item drawn from the factory's input space
NextFactory ==
    \/ Fetch(SingleBodies)
    \/ NormalizeItem
    \/ EndNormalize
    \/ SendBatch
    \/ Return

SpecFactory == Init /\ [][NextFactory]_vars

\* runs over long collections of valid items: several batches
NextDispatch ==
    \/ Fetch(ValidBodies)
    \/ NormalizeItem
    \/ EndNormalize
    \/ SendBatch
    \/ Return

SpecDispatch == Init /\ [][NextDispatch]_vars

\* ------------------------------------------------------------ properties
FetchSucceeded == \E i \in DOMAIN log : log[i].event = "fetched"

FetchFailed == pc # "fetch" /\ ~FetchSucceeded

\* the raw item the loop consumed last
LastItem == api_data[idx]

\* the identifier field is absent (or null) or empty
MissingOrEmpty(v) == v.t \in {"absent", "null"} \/ (v.t \in {"str", "list"} /\ v.s = <<>>)

\* C1: an item on which the factory raises is counted as skipped and the loop
\* goes on; the exception never leaves the loop.
C1_RaisingItemIsSkipped ==
    (idx > 0 /\ tender_object.kind = "raise")
        => (result.exc = "" /\ skipped_count >= 1 /\ pc # "returned")

\* C2: a raw item whose rowKey is absent or empty yields None and no record,
\* whatever its other fields hold.
C2_NoIdentifierYieldsNone ==
    (idx = 1 /\ MissingOrEmpty(LastItem["rowKey"]))
        => (tender_object = ReturnsNone /\ processed_tenders = <<>>)

C2_Witness ==
    /\ idx = 1
    /\ LastItem["rowKey"] = Str(<<>>)
    /\ LastItem["descriptionOfTender"] = Null
    /\ Truthy(LastItem["attachment"])
    /\ tender_object.kind = "None"

RECURSIVE Concat(_)
Concat(groups) ==
    IF groups = <<>> THEN <<>> ELSE Head(groups) \o Concat(Tail(groups))

\* C3: N records give ceil(N/10) groups, each of 1 to 10 records, all but the
\* last of exactly 10, whose concatenation is the input sequence.
C3_Batching ==
    pc \in {"dispatch", "returned"} =>
        LET n == Len(processed_tender_dicts)
            g == message_batches
        IN  /\ Len(g) = (n + 9) \div 10
            /\ \A k \in DOMAIN g : Len(g[k]) >= 1 /\ Len(g[k]) <= 10
            /\ \A k \in DOMAIN g : k < Len(g) => Len(g[k]) = 10
            /\ Concat(g) = processed_tender_dicts
            /\ Len(processed_tender_dicts) = Len(processed_tenders)

C3_Witness ==
    /\ pc = "dispatch"
    /\ Len(processed_tender_dicts) = 21
    /\ Len(message_batches) = 3
    /\ Len(message_batches[3]) = 1

RECURSIVE Confirmed(_)
\* entries the transport confirmed over a sequence of calls
Confirmed(calls) ==
    IF calls = <<>> THEN 0
    ELSE (IF Head(calls).response.raised THEN 0
          ELSE Len(Head(calls).response.Successful)) + Confirmed(Tail(calls))

\* C4: the sent-count is the sum over the groups of the entries the transport
\* confirmed; a call that raised adds 0, a partly rejected one its confirmed entries.
C4_SentCountIsConfirmedSum ==
    pc \in {"dispatch", "returned"} => sent_count = Confirmed(sends)

C4_Witness ==
    /\ pc = "returned"
    /\ result.statusCode = 200
    /\ Len(sends) = 3
    /\ sends[1].response.raised
    /\ ~sends[2].response.raised
    /\ Len(sends[2].response.Successful) = 4
    /\ Len(sends[2].response.Failed) = 6
    /\ sent_count = 5

\* C5: every group is sent exactly once, in batch-index order, whatever the
\* earlier calls did; at the end every group has been sent.
C5_EveryGroupSentOnce ==
    pc \in {"dispatch", "returned"} =>
        /\ Len(sends) = batch_index
        /\ \A i \in DOMAIN sends :
             /\ sends[i].index = i - 1
             /\ i <= Len(message_batches)
             /\ sends[i].Entries = Entries(i - 1, message_batches[i])
        /\ result.statusCode = 200 => Len(sends) = Len(message_batches)

C5_Witness ==
    /\ pc = "returned"
    /\ result.statusCode = 200
    /\ Len(sends) = 3
    /\ sends[1].response.raised
    /\ sends[2].response.Failed # <<>>
    /\ sends[3].index = 2

\* C6: a failed fetch ends the run with a failure; no raw item is normalized
\* and no send call is made.
C6_FetchFailureIsFatal ==
    FetchFailed =>
        /\ pc = "returned"
        /\ result.statusCode = 502 \/ result.exc # ""
        /\ idx = 0
        /\ processed_tenders = <<>>
        /\ sends = <<>>

C6_Witness ==
    /\ FetchFailed
    /\ result = Returned(502, "Invalid JSON response from source API")

\* C7: once the fetch has succeeded the run ends with the success status: no
\* item-level or batch-level error becomes a failure status or an uncaught exception.
C7_OnlyFetchFailsRun ==
    (FetchSucceeded /\ pc = "returned") => (result.statusCode = 200 /\ result.exc = "")

\* consumed items on which the factory raised
Failures == idx - Len(processed_tenders)
            - Cardinality({i \in 1..idx : ~Truthy(Get(api_data[i], "rowKey"))})

\* C8: no-identifier skips are tallied apart from failures: the count reported
\* as skipped "due to errors" is the count of failures and holds no
\* no-identifier skip.
C8_NoIdSkipNotReportedAsError ==
    \A i \in DOMAIN log :
        log[i].event = "skipped due to errors" => log[i].n = Failures

\* the raw value is a string in the fixed format naming a real instant
WellFormed(v) ==
    /\ v.t = "str"
    /\ Len(v.s) = 7
    /\ v.s[1] \in 1..12
    /\ v.s[3] \in 1..9999
    /\ v.s[2] \in 1..DaysInMonth(v.s[3], v.s[1])
    /\ v.s[4] \in 1..12
    /\ v.s[5] \in 0..59
    /\ v.s[6] \in 0..59
    /\ v.s[7] \in {AM, PM}

DateIsRight(raw, date) ==
    IF WellFormed(raw)
    THEN /\ Len(date) = 6
         /\ <<date[1], date[2], date[3]>> = <<raw.s[3], raw.s[1], raw.s[2]>>
         /\ date[4] \in 0..23
         /\ date[4] % 12 = raw.s[4] % 12
         /\ (date[4] >= 12) = (raw.s[7] = PM)
    ELSE date = None

\* C9: with a non-empty identifier each date is null when its raw value is
\* absent, empty, of the wrong type or not in the format, and a timestamp
\* otherwise, each on its own; no date makes the factory raise or withhold
\* the record.
C9_DatesParseIndependently ==
    (idx = 1 /\ Truthy(LastItem["rowKey"])) =>
        /\ tender_object.kind # "None"
        /\ tender_object.kind = "raise" =>
             /\ tender_object.exc = "AttributeError"
             /\ \E k \in TextKeys : LastItem[k].t \notin {"absent", "str"}
        /\ tender_object.kind = "record" =>
             /\ DateIsRight(LastItem["publishedDate"], tender_object.rec[1].published_date)
             /\ DateIsRight(LastItem["closingDate"], tender_object.rec[1].closing_date)
        /\ (\A k \in TextKeys : LastItem[k].t \in {"absent", "str"})
             => tender_object.kind = "record"

C9_Witness ==
    /\ idx = 1
    /\ tender_object.kind = "record"
    /\ LastItem["publishedDate"] = Num(5)
    /\ LastItem["closingDate"] = GoodDate
    /\ tender_object.rec[1].published_date = None
    /\ tender_object.rec[1].closing_date = <<2025, 10, 1, 9, 0, 0>>

\* C10: every free-text attribute of a produced record holds no newline or
\* carriage return, no leading or trailing whitespace, matches its casing rule,
\* and normalizing it again returns it unchanged.
C10_TextIsNormalized ==
    (idx = 1 /\ tender_object.kind = "record") =>
        \A a \in TextAttrs :
            LET v == tender_object.rec[1][a]
                casing == Casing(KeyOf(a))
            IN  /\ \A i \in DOMAIN v : v[i] \notin {LF, CR}
                /\ v # <<>> => ~IsSpace(v[1]) /\ ~IsSpace(v[Len(v)])
                /\ ApplyCase(casing, v) = v
                /\ CleanText(casing, v) = v

\* the attributes of a record, and the keys of its transport representation,
\* whose values are sequences of numbers like an identifier
SequenceAttrs == TextAttrs \cup {"published_date", "closing_date", "tags"}
TransportTextKeys ==
    {"title", "description", "tenderNumber", "institution", "category",
     "tenderType", "location", "email", "contactPerson"}

RECURSIVE Accepted(_)
\* the records of the items the factory accepts, in the items' order
Accepted(items) ==
    IF items = <<>> THEN <<>>
    ELSE (IF from_api_response(Head(items)).kind = "record"
          THEN from_api_response(Head(items)).rec ELSE <<>>)
         \o Accepted(Tail(items))

\* consumed items without identifier
NoIdentifier == {i \in 1..idx : ~Truthy(Get(api_data[i], "rowKey"))}

\* C12: at every step of the normalization loop the accepted records plus the
\* skip count equal the items consumed, the accepted records are those of the
\* accepted items in their order, and each item without identifier has added
\* one to the skip count and nothing to the accepted records.
C12_Accounting ==
    /\ Len(processed_tenders) + skipped_count = idx
    /\ processed_tenders = Accepted(SubSeq(api_data, 1, idx))
    /\ skipped_count >= Cardinality(NoIdentifier)

====
